---- MODULE Spec2Model ----
(***************************************************************************)
(* Model of reps_scheduler/scheduler.py: the shape distributor             *)
(* schedule_by_shape and the progression planner get_progression.          *)
(*                                                                         *)
(* Numbers.  The Python code computes in binary floating point.  Here a    *)
(* real value is an exact fraction num/den of integers and Python's        *)
(* round() is round-half-to-even on that fraction.  The two agree on the   *)
(* whole input range of this model (compared by running scheduler.py for   *)
(* num_set <= 12, total < 205 and starting_max < 4.5); a value that is not *)
(* an exact half is at least 1/(2*den) away from one, far more than the    *)
(* floating-point error.                                                   *)
(*                                                                         *)
(* An argument of schedule_by_shape is a record [isint, halves]: the value *)
(* halves/2, of Python type int when isint and float otherwise.            *)
(* starting_max is given in tenths.  Sequences are 1-based, so index i     *)
(* here is index i-1 in the Python lists.                                  *)
(***************************************************************************)
EXTENDS Integers, Sequences, FiniteSets, TLC

\* ---------------------------------------------------------------- bounds
MaxSets == 6
MaxTotal == 102
MaxNegArg == 1
MaxStartTenths == 24
MaxNegStartTenths == 11
MaxGoal == 4
MaxNegGoal == 1

\* ------------------------------------------------------- program constants
N_SETS == 5
\* RATIO_OF_MAX_FOR_N_SETS = 0.6, in hundredths
RATIO_OF_MAX_FOR_N_SETS == 60
\* DAY_INCREASES = [1.13, 1.10, 1.10], in hundredths
DAY_INCREASES == <<113, 110, 110>>
DAYS_PER_WEEK == Len(DAY_INCREASES)
\* math.prod(DAY_INCREASES), in millionths
WEEKLY_INCREASE == DAY_INCREASES[1] * DAY_INCREASES[2] * DAY_INCREASES[3]

DISTRO_SHAPE_FUNCTIONS == <<"peak_in_middle", "peak_toward_front", "front_load">>
DAY_SCHEDULES == DISTRO_SHAPE_FUNCTIONS

\* ------------------------------------------------------- Python builtins
RECURSIVE sum(_)
sum(values) == IF values = <<>> THEN 0 ELSE Head(values) + sum(Tail(values))

max(values) == CHOOSE m \in {values[i] : i \in 1..Len(values)} :
                  \A i \in 1..Len(values) : values[i] <= m

min(values) == CHOOSE m \in {values[i] : i \in 1..Len(values)} :
                  \A i \in 1..Len(values) : values[i] >= m

\* round(num/den) for den > 0: nearest integer, an exact half goes to the
\* even neighbour.
round(num, den) ==
    LET q == num \div den
        r == num % den
    IN  IF 2 * r < den THEN q
        ELSE IF 2 * r > den THEN q + 1
        ELSE IF q % 2 = 0 THEN q ELSE q + 1

\* ------------------------------------------------------- shape functions
\* Each takes x = xn/xd and returns the numerator of f(x) over xd.
peak_in_middle_function(xn, xd) ==
    IF xn <= 2 * xd THEN 2 * xn - 2 * xd ELSE 6 * xd - 2 * xn

peak_toward_front_function(xn, xd) ==
    IF xn <= 2 * xd THEN 2 * xn ELSE 12 * xd - 4 * xn

\* the breakpoint x = 1 put on the wrong piece
front_load_function_edge(xn, xd) ==
    IF xn <= xd THEN 8 * xd - xn ELSE 4 * xd - 2 * xn

front_load_function(xn, xd) ==
    IF xn < xd THEN 8 * xd - xn ELSE 4 * xd - 2 * xn

distro_shape(shape, xn, xd) ==
    CASE shape = "peak_in_middle"    -> peak_in_middle_function(xn, xd)
      [] shape = "peak_toward_front" -> peak_toward_front_function(xn, xd)
      [] shape = "front_load"        -> front_load_function(xn, xd)

\* last index of the maximum value
argmax_last(values) ==
    CHOOSE i \in 1..Len(values) :
        /\ values[i] = max(values)
        /\ \A j \in (i + 1)..Len(values) : values[j] # max(values)

\* first index of the maximum value
argmax(values) ==
    CHOOSE i \in 1..Len(values) :
        /\ values[i] = max(values)
        /\ \A j \in 1..(i - 1) : values[j] # max(values)

\* ------------------------------------------------------- schedule_by_shape
IntArg(k) == [isint |-> TRUE, halves |-> 2 * k]
FloatArg(h) == [isint |-> FALSE, halves |-> h]

\* the type of total is not looked at
bad_input_total_untyped(num_set, total) ==
    \/ num_set.halves <= 0 \/ total.halves < 0
    \/ ~num_set.isint

\* the two guards in front of the computation
bad_input(num_set, total) ==
    \/ num_set.halves <= 0 \/ total.halves < 0
    \/ ~num_set.isint \/ ~total.isint

\* sets = [round(diff + set_average) for diff in diffs_from_average] with
\* x_i = 4i/(n-1), set_average = t/n, diff_scale = set_average/20:
\* diff + set_average = t * (f(x_i) + 20) / (20 * n)
rounded_sets(shape, n, t) ==
    [i \in 1..n |->
        round(t * (distro_shape(shape, 4 * (i - 1), n - 1) + 20 * (n - 1)),
              20 * n * (n - 1))]

\* an over-allocation is left in place
fix_rounding_no_shrink(sets_, t) ==
    LET rounding_error == t - sum(sets_)
    IN  IF rounding_error < 0
        THEN sets_
        ELSE [sets_ EXCEPT ![argmax(sets_)] = @ + rounding_error]

\* a surplus goes to the last set
fix_rounding_grow_last(sets_, t) ==
    LET rounding_error == t - sum(sets_)
    IN  [sets_ EXCEPT ![Len(sets_)] = @ + rounding_error]

\* "fix any rounding errors"
fix_rounding(sets_, t) ==
    LET rounding_error == t - sum(sets_)
    IN  IF rounding_error < 0
        THEN [sets_ EXCEPT ![Len(sets_)] = @ + rounding_error]
        ELSE [sets_ EXCEPT ![argmax(sets_)] = @ + rounding_error]

\* The whole function: the outcome, the list before the correction (a
\* local of the function) and the returned list.
schedule_by_shape(shape, num_set_, total_) ==
    IF bad_input(num_set_, total_)
    THEN [outcome |-> "ValueError", sets |-> <<>>, result |-> <<>>]
    ELSE LET n == num_set_.halves \div 2
             t == total_.halves \div 2
         IN  IF n = 1
             THEN [outcome |-> "ok", sets |-> <<>>, result |-> <<t>>]
             ELSE [outcome |-> "ok",
                   sets    |-> rounded_sets(shape, n, t),
                   result  |-> fix_rounding(rounded_sets(shape, n, t), t)]

\* ------------------------------------------------- exact decimal numbers
\* The growth factors are products of up to 3 * est_weeks two-decimal
\* rates, so they are kept exactly as a sequence of decimal digits, least
\* significant first; <<>> is zero.
RECURSIVE NatToDigits(_)
NatToDigits(n) == IF n = 0 THEN <<>> ELSE <<n % 10>> \o NatToDigits(n \div 10)

RECURSIVE DigitsToNat(_)
DigitsToNat(d) == IF d = <<>> THEN 0 ELSE Head(d) + 10 * DigitsToNat(Tail(d))

\* d * k + carry, for a small natural k > 0
RECURSIVE DigitsMul(_, _, _)
DigitsMul(d, k, carry) ==
    IF d = <<>> THEN NatToDigits(carry)
    ELSE LET v == Head(d) * k + carry
         IN  <<v % 10>> \o DigitsMul(Tail(d), k, v \div 10)

\* d * 10^k
DigitsShift(d, k) == IF d = <<>> THEN <<>> ELSE [i \in 1..k |-> 0] \o d

\* a >= b
DigitsGeq(a, b) ==
    IF Len(a) # Len(b) THEN Len(a) > Len(b)
    ELSE \/ a = b
         \/ \E i \in 1..Len(a) :
               /\ a[i] > b[i]
               /\ \A j \in (i + 1)..Len(a) : a[j] = b[j]

\* round(d / 10^k), an exact half going to the even neighbour
DigitsRound(d, k) ==
    LET q    == IF Len(d) > k THEN DigitsToNat(SubSeq(d, k + 1, Len(d))) ELSE 0
        top  == IF k >= 1 /\ Len(d) >= k THEN d[k] ELSE 0
        rest == \E i \in 1..(k - 1) : i <= Len(d) /\ d[i] # 0
    IN  IF top < 5 THEN q
        ELSE IF top > 5 \/ rest THEN q + 1
        ELSE IF q % 2 = 0 THEN q ELSE q + 1

\* ---------------------------------------------------- get_progression
Abs(n) == IF n < 0 THEN -n ELSE n

\* math.prod of the first num_days entries of the endlessly repeated
\* DAY_INCREASES: the digits of the product times 100^num_days
RECURSIVE get_total_increase_after_days(_)
get_total_increase_after_days(num_days) ==
    IF num_days = 0 THEN <<1>>
    ELSE DigitsMul(get_total_increase_after_days(num_days - 1),
                   DAY_INCREASES[((num_days - 1) % DAYS_PER_WEEK) + 1], 0)

\* starting_total = round(starting_average * n_sets), starting_average =
\* 0.6 * starting_max, starting_max in tenths
starting_total(start_tenths) ==
    round(RATIO_OF_MAX_FOR_N_SETS * start_tenths * N_SETS, 1000)

\* round(get_total_increase_after_days(day) * starting_total)
day_total(day_, start_tenths) ==
    LET st == starting_total(start_tenths)
        m  == IF st = 0 THEN <<>>
              ELSE DigitsMul(get_total_increase_after_days(day_), Abs(st), 0)
        r  == DigitsRound(m, 2 * day_)
    IN  IF st < 0 THEN -r ELSE r

\* the element the generator yields for a day index
generated_day(day_, start_tenths) ==
    schedule_by_shape(DAY_SCHEDULES[(day_ % DAYS_PER_WEEK) + 1],
                      IntArg(N_SETS), IntArg(day_total(day_, start_tenths)))

\* least n >= 1 with lhs * WEEKLY_INCREASE^n >= rhs * 10^(6n)
RECURSIVE WeeksUp(_, _, _)
WeeksUp(lhs, rhs, n) ==
    IF DigitsGeq(lhs, rhs) THEN n
    ELSE WeeksUp(DigitsMul(lhs, WEEKLY_INCREASE, 0), DigitsShift(rhs, 6), n + 1)

\* greatest m >= 0 with lhs * WEEKLY_INCREASE^m <= rhs * 10^(6m)
RECURSIVE WeeksDown(_, _, _)
WeeksDown(lhs, rhs, m) ==
    LET l2 == DigitsMul(lhs, WEEKLY_INCREASE, 0)
        r2 == DigitsShift(rhs, 6)
    IN  IF DigitsGeq(r2, l2) THEN WeeksDown(l2, r2, m + 1) ELSE m

\* est_required_inc = single_set_goal / starting_average as the fraction
\* (1000 * goal) / (60 * start_tenths)
est_required_inc_num(goal) == 1000 * goal
est_required_inc_den(start_tenths) == RATIO_OF_MAX_FOR_N_SETS * start_tenths

\* est_weeks = ceil(log(est_required_inc) / log(WEEKLY_INCREASE)) for
\* est_required_inc > 0: the least integer n with
\* WEEKLY_INCREASE^n >= est_required_inc (n <= 0 when it is <= 1)
est_weeks_of(start_tenths, goal) ==
    LET a == NatToDigits(Abs(est_required_inc_num(goal)))
        b == NatToDigits(Abs(est_required_inc_den(start_tenths)))
    IN  IF DigitsGeq(b, a) THEN -WeeksDown(a, b, 0) ELSE WeeksUp(b, a, 0)

\* what lines 143-149 end in
progression_start(start_tenths, goal) ==
    IF start_tenths = 0 THEN "ZeroDivisionError"
    ELSE IF goal = 0 \/ (goal < 0) # (start_tenths < 0) THEN "ValueError"
    ELSE "ok"

\* ------------------------------------------------------------- the state
\* pc       where the caller is: "idle", "shape_done" (schedule_by_shape
\*          has ended), "generating" (get_progression is consuming its
\*          generator through takewhile), "progress_done"
\* distro, num_set, total   arguments of the last schedule_by_shape call
\* sets     its list before the rounding correction
\* starting_max (tenths), single_set_goal   arguments of get_progression
\* est_weeks, day, schedule   its locals: the week estimate, the next day
\*          index of the generator, the days takewhile has let through
\* result, outcome   what the call returned or raised
VARIABLES pc, distro, num_set, total, sets, starting_max, single_set_goal,
          est_weeks, day, schedule, result, outcome

vars == <<pc, distro, num_set, total, sets, starting_max, single_set_goal,
          est_weeks, day, schedule, result, outcome>>

shape_vars == <<distro, num_set, total, sets>>
progress_vars == <<starting_max, single_set_goal, est_weeks, day, schedule>>

NoArg == IntArg(0)

\* inputs of the calls
SetArgs == {IntArg(k) : k \in (-MaxNegArg)..MaxSets}
              \cup {FloatArg(h) : h \in {-1, 8, 11}}
TotalArgs == {IntArg(k) : k \in (-MaxNegArg)..MaxTotal}
              \cup {FloatArg(h) : h \in {-1, 40, 47}}
StartTenths == (-MaxNegStartTenths)..MaxStartTenths
Goals == (-MaxNegGoal)..MaxGoal

Init ==
    /\ pc = "idle"
    /\ distro = "none" /\ num_set = NoArg /\ total = NoArg /\ sets = <<>>
    /\ starting_max = 0 /\ single_set_goal = 0
    /\ est_weeks = 0 /\ day = 0 /\ schedule = <<>>
    /\ result = <<>> /\ outcome = "none"

\* schedule_by_shape(shape, n, t), start to end
ScheduleByShape(shape, n, t) ==
    /\ pc = "idle"
    /\ pc' = "shape_done"
    /\ distro' = shape /\ num_set' = n /\ total' = t
    /\ sets' = schedule_by_shape(shape, n, t).sets
    /\ result' = schedule_by_shape(shape, n, t).result
    /\ outcome' = schedule_by_shape(shape, n, t).outcome
    /\ UNCHANGED progress_vars

\* get_progression up to the construction of the generator
GetProgression(start_tenths, goal) ==
    /\ pc = "idle"
    /\ starting_max' = start_tenths /\ single_set_goal' = goal
    /\ day' = 0 /\ schedule' = <<>> /\ result' = <<>>
    /\ IF progression_start(start_tenths, goal) = "ok"
       THEN /\ est_weeks' = est_weeks_of(start_tenths, goal)
            /\ outcome' = "none"
            /\ pc' = "generating"
       ELSE /\ est_weeks' = 0
            /\ outcome' = progression_start(start_tenths, goal)
            /\ pc' = "progress_done"
    /\ UNCHANGED shape_vars

\* a day that exactly reaches the goal is let through
keeps_inclusive(a_day, goal) == max(a_day) <= goal

\* the predicate of takewhile
keeps(a_day, goal) == max(a_day) < goal

\* takewhile lets the next generated day through
TakeDay ==
    /\ pc = "generating"
    /\ day < DAYS_PER_WEEK * est_weeks
    /\ LET d == generated_day(day, starting_max)
       IN  /\ d.outcome = "ok"
           /\ keeps(d.result, single_set_goal)
           /\ schedule' = Append(schedule, d.result)
    /\ day' = day + 1
    /\ UNCHANGED <<pc, shape_vars, starting_max, single_set_goal, est_weeks,
                   result, outcome>>

\* takewhile meets a day that fails the predicate; the goal day is appended
StopAtDay ==
    /\ pc = "generating"
    /\ day < DAYS_PER_WEEK * est_weeks
    /\ LET d == generated_day(day, starting_max)
       IN  /\ d.outcome = "ok"
           /\ ~keeps(d.result, single_set_goal)
    /\ result' = Append(schedule, <<single_set_goal>>)
    /\ outcome' = "ok"
    /\ pc' = "progress_done"
    /\ UNCHANGED <<shape_vars, progress_vars>>

\* the generator is exhausted; the goal day is appended
RangeExhausted ==
    /\ pc = "generating"
    /\ day >= DAYS_PER_WEEK * est_weeks
    /\ result' = Append(schedule, <<single_set_goal>>)
    /\ outcome' = "ok"
    /\ pc' = "progress_done"
    /\ UNCHANGED <<shape_vars, progress_vars>>

\* schedule_by_shape raises inside the generator
DayRaises ==
    /\ pc = "generating"
    /\ day < DAYS_PER_WEEK * est_weeks
    /\ generated_day(day, starting_max).outcome # "ok"
    /\ outcome' = generated_day(day, starting_max).outcome
    /\ result' = <<>>
    /\ pc' = "progress_done"
    /\ UNCHANGED <<shape_vars, progress_vars>>

\* the caller is done with the result; nothing is kept between calls
NextCall ==
    /\ pc \in {"shape_done", "progress_done"}
    /\ pc' = "idle"
    /\ distro' = "none" /\ num_set' = NoArg /\ total' = NoArg /\ sets' = <<>>
    /\ starting_max' = 0 /\ single_set_goal' = 0
    /\ est_weeks' = 0 /\ day' = 0 /\ schedule' = <<>>
    /\ result' = <<>> /\ outcome' = "none"

Next ==
    \/ \E i \in 1..Len(DISTRO_SHAPE_FUNCTIONS), n \in SetArgs, t \in TotalArgs :
          ScheduleByShape(DISTRO_SHAPE_FUNCTIONS[i], n, t)
    \/ \E s \in StartTenths, g \in Goals : GetProgression(s, g)
    \/ TakeDay
    \/ StopAtDay
    \/ RangeExhausted
    \/ DayRaises
    \/ NextCall

Spec == Init /\ [][Next]_vars

\* ================================================================ claims
ShapeReturned == pc = "shape_done" /\ outcome = "ok"
ProgressReturned == pc = "progress_done" /\ outcome = "ok"
IntOf(a) == a.halves \div 2

\* C1: every list schedule_by_shape returns sums exactly to total.
C1_SumsToTotal == ShapeReturned => sum(result) = IntOf(total)

\* a call whose rounded counts over-allocated and were corrected
C1_Witness ==
    /\ ShapeReturned /\ Len(sets) >= 2
    /\ sum(sets) > IntOf(total)
    /\ sum(result) = IntOf(total)

\* C2: no entry of a list schedule_by_shape returns is negative.
C2_NoNegativeEntry ==
    ShapeReturned => \A i \in 1..Len(result) : result[i] >= 0

\* C3: the last element of a list schedule_by_shape returns is a minimum
\* of the list.
C3_LastIsMin == ShapeReturned => min(result) = result[Len(result)]

\* a call of three or more sets whose surplus was added, the last set
\* staying below the first
C3_Witness ==
    /\ ShapeReturned /\ Len(result) >= 3
    /\ sum(sets) < IntOf(total)
    /\ result[Len(result)] < result[1]

\* C4: schedule_by_shape raises ValueError and returns no list exactly
\* when num_set <= 0, total < 0, or one of the two is not an int; on every
\* other input it returns a list of num_set entries.
C4_BadInputRaises ==
    pc = "shape_done" =>
        IF \/ num_set.halves <= 0 \/ total.halves < 0
           \/ num_set.isint = FALSE \/ total.isint = FALSE
        THEN outcome = "ValueError" /\ result = <<>>
        ELSE outcome = "ok" /\ Len(result) = IntOf(num_set)

\* a call with a positive int set count and a non-negative float total
C4_Witness ==
    /\ pc = "shape_done" /\ outcome = "ValueError"
    /\ num_set.isint /\ num_set.halves > 0
    /\ ~total.isint /\ total.halves > 0

\* C5: the sums of consecutive training days of a progression with
\* starting_max > 0 are strictly increasing.
C5_StrictlyIncreasingSums ==
    (ProgressReturned /\ starting_max > 0) =>
        \A k \in 1..(Len(result) - 2) : sum(result[k]) < sum(result[k + 1])

\* C6: a progression with starting_max > 0 ends with the day [goal]; the
\* days before it are the generated days in order, each of 5 sets with a
\* maximum below goal, and they end right before the first generated day
\* whose maximum reaches goal.  A call with goal >= 1 returns.
C6_TrainingDaysStopAtGoal ==
    /\ (pc = "progress_done" /\ starting_max > 0 /\ single_set_goal >= 1)
          => outcome = "ok"
    /\ (ProgressReturned /\ starting_max > 0) =>
        LET n == Len(result) - 1
        IN  /\ n >= 0
            /\ result[n + 1] = <<single_set_goal>>
            /\ \A k \in 1..n :
                  /\ Len(result[k]) = N_SETS
                  /\ max(result[k]) < single_set_goal
                  /\ result[k] = generated_day(k - 1, starting_max).result
            /\ n <= DAYS_PER_WEEK * est_weeks \/ n = 0
            /\ n < DAYS_PER_WEEK * est_weeks =>
                  max(generated_day(n, starting_max).result) >= single_set_goal

\* a progression with training days that stopped at a day reaching goal
C6_Witness ==
    /\ ProgressReturned /\ starting_max > 0
    /\ Len(result) >= 3
    /\ Len(result) - 1 < DAYS_PER_WEEK * est_weeks
    /\ max(generated_day(Len(result) - 1, starting_max).result) = single_set_goal

\* C7: get_progression raises ValueError and returns nothing when
\* starting_max <= 0 or goal / (0.6 * starting_max) <= 1.
C7_DegenerateInputsRaise ==
    (/\ pc = "progress_done"
     /\ \/ starting_max <= 0
        \/ est_required_inc_num(single_set_goal)
              <= est_required_inc_den(starting_max))
        => outcome = "ValueError" /\ result = <<>>

\* C8: when starting_max > 0 and goal / (0.6 * starting_max) > 1, one of
\* the days generated for the indices 0 .. 3 * est_weeks - 1 has a maximum
\* of at least goal.
C8_EstimateIsUpperBound ==
    (/\ ProgressReturned /\ starting_max > 0
     /\ est_required_inc_num(single_set_goal)
           > est_required_inc_den(starting_max))
        => \E d \in 0..(DAYS_PER_WEEK * est_weeks - 1) :
              max(generated_day(d, starting_max).result) >= single_set_goal

\* C9: the three canonical 5-set lists.
C9_CanonicalLists ==
    (pc = "shape_done" /\ num_set = IntArg(5)) =>
        /\ (distro = "peak_in_middle" /\ total = IntArg(98))
              => result = <<18, 20, 22, 20, 18>>
        /\ (distro = "peak_toward_front" /\ total = IntArg(102))
              => result = <<20, 22, 24, 20, 16>>
        /\ (distro = "front_load" /\ total = IntArg(100))
              => result = <<28, 22, 20, 18, 12>>

\* the front_load call of the canonical check has returned
C9_Witness ==
    /\ ShapeReturned /\ distro = "front_load"
    /\ num_set = IntArg(5) /\ total = IntArg(100)
    /\ sets = <<28, 22, 20, 18, 16>>

\* C10: with two or more sets the rounding correction changes one entry of
\* the rounded counts: the last one when the error is negative, else the
\* first one holding the maximum; it adds the error there.
C10_CorrectionFrame ==
    (ShapeReturned /\ IntOf(num_set) >= 2) =>
        LET err == IntOf(total) - sum(sets)
            n   == Len(sets)
            hit(i) == IF err < 0 THEN i = n
                      ELSE /\ \A j \in 1..n : sets[j] <= sets[i]
                           /\ \A j \in 1..(i - 1) : sets[j] < sets[i]
        IN  /\ Len(result) = n
            /\ \A i \in 1..n :
                  result[i] = IF hit(i) THEN sets[i] + err ELSE sets[i]

\* a surplus was added where several sets hold the maximum
C10_Witness ==
    /\ ShapeReturned /\ Len(sets) >= 2
    /\ sum(sets) < IntOf(total)
    /\ \E i, j \in 1..Len(sets) :
          i < j /\ sets[i] = max(sets) /\ sets[j] = max(sets)
    /\ result[1] > sets[1]

====
